---- MODULE Spec2Model ----
(***************************************************************************)
(* Model of src/src/email_agent: email_parser.py (class EmailParser),       *)
(* gmail_auth.py (class GmailAuth) and email_fetcher.py (class             *)
(* EmailFetcher).                                                          *)
(*                                                                         *)
(* Text that the code inspects character by character (bodies, base64      *)
(* data, header names) is a sequence of Unicode code points; text the code *)
(* only passes through or looks up whole (ids, header values, mime types)  *)
(* is a TLA+ string.  A Python dict is a function whose DOMAIN is its key  *)
(* set, so `k in d` is k \in DOMAIN d and {} is the empty function <<>>.   *)
(*                                                                         *)
(* A Python call either returns a value or raises: every modelled call     *)
(* yields [exc |-> "none", val |-> v] or [exc |-> <exception type>], and   *)
(* an exception propagates through a caller unless the caller's            *)
(* try/except catches it.                                                  *)
(***************************************************************************)
EXTENDS Integers, Sequences, FiniteSets, TLC

VARIABLES
  html_converter,    \* EmailParser: the html2text converter all calls share
  op, arg, env, ret, \* the call last made: its name, argument, the
                     \* environment it met, and its result
  threads,           \* callers inside parse_message on the one parser
  _credentials,      \* GmailAuth._credentials
  _service,          \* GmailAuth._service
  token_file,        \* the file at GmailAuth.token_path
  credentials_file,  \* whether the file at GmailAuth.credentials_path exists
  now,               \* the time, which credentials expire by
  calls              \* the calls the last operation made on its collaborators

auth_vars == <<_credentials, _service, token_file, credentials_file, now, calls>>

vars == <<html_converter, op, arg, env, ret, threads, auth_vars>>

(***************************************************************************)
(* Bounds of the model.                                                    *)
(***************************************************************************)
\* most children of one container in the generated part trees
MaxChildren == 3
\* most headers in a generated header list
MaxHeaders == 3
\* deepest generated chain of nested containers
MaxDepth == 3
\* most nested _extract_from_parts calls the interpreter may still allow
MaxFrames == 4

(***************************************************************************)
(* Results of calls.                                                       *)
(***************************************************************************)
Ok(v) == [exc |-> "none", val |-> v]

Raise(e) == [exc |-> e]

Returned(r) == r.exc = "none"

EmptyDict == <<>>

Get(d, k, default) == IF k \in DOMAIN d THEN d[k] ELSE default

(***************************************************************************)
(* decode_body: base64.urlsafe_b64decode, then bytes.decode('utf-8',        *)
(* errors='ignore'), any exception caught and turned into "".              *)
(***************************************************************************)
\* binascii's table: the 6-bit value of an alphabet character, 64 for '='
\* and for every character outside the alphabet.
table_a2b_base64(c) ==
  IF c \in 65..90 THEN c - 65
  ELSE IF c \in 97..122 THEN c - 71
  ELSE IF c \in 48..57 THEN c + 4
  ELSE IF c = 43 THEN 62
  ELSE IF c = 47 THEN 63
  ELSE 64

\* base64.urlsafe_b64decode first maps '-' to '+' and '_' to '/'.
urlsafe_translate(s) ==
  [i \in 1..Len(s) |-> IF s[i] = 45 THEN 43 ELSE IF s[i] = 95 THEN 47 ELSE s[i]]

\* binascii.a2b_base64 in its default (non-strict) mode, one character at a
\* time: characters outside the alphabet are skipped, padding that completes
\* a quad ends the decoding, and data left in an incomplete quad is an error.
RECURSIVE a2b_base64(_, _, _, _, _)
a2b_base64(s, quad_pos, leftchar, pads, out) ==
  IF s = <<>> THEN
    IF quad_pos # 0 THEN Raise("binascii.Error") ELSE Ok(out)
  ELSE
    LET c == Head(s)
        v == table_a2b_base64(c)
        rest == Tail(s)
    IN IF c = 61 THEN
         IF quad_pos >= 2 /\ quad_pos + pads + 1 >= 4 THEN Ok(out)
         ELSE a2b_base64(rest, quad_pos, leftchar,
                         IF quad_pos >= 2 THEN pads + 1 ELSE pads, out)
       ELSE IF v >= 64 THEN a2b_base64(rest, quad_pos, leftchar, pads, out)
       ELSE IF quad_pos = 0 THEN a2b_base64(rest, 1, v, 0, out)
       ELSE IF quad_pos = 1 THEN
         a2b_base64(rest, 2, v % 16, 0, Append(out, leftchar * 4 + v \div 16))
       ELSE IF quad_pos = 2 THEN
         a2b_base64(rest, 3, v % 4, 0, Append(out, leftchar * 16 + v \div 4))
       ELSE a2b_base64(rest, 0, 0, 0, Append(out, leftchar * 64 + v))

\* A str argument is first encoded as ASCII, which fails on any other
\* character.
urlsafe_b64decode(s) ==
  IF \E i \in 1..Len(s) : s[i] > 127 THEN Raise("ValueError")
  ELSE a2b_base64(urlsafe_translate(s), 0, 0, 0, <<>>)

\* bytes.decode('utf-8', errors='ignore'): every byte that is not part of a
\* well-formed sequence is dropped and decoding goes on with the next byte.
\* One- and two-byte sequences are modelled; the generated bodies hold no
\* lead byte of a longer sequence.
RECURSIVE utf8_decode_ignore(_)
utf8_decode_ignore(b) ==
  IF b = <<>> THEN <<>>
  ELSE LET h == Head(b) IN
    IF h < 128 THEN <<h>> \o utf8_decode_ignore(Tail(b))
    ELSE IF h \in 194..223 /\ Len(b) >= 2 /\ b[2] \in 128..191 THEN
      <<(h - 192) * 64 + (b[2] - 128)>> \o utf8_decode_ignore(SubSeq(b, 3, Len(b)))
    ELSE utf8_decode_ignore(Tail(b))

\* decode_body without its try/except
decode_body_uncaught(encoded_body) ==
  LET decoded_bytes == urlsafe_b64decode(encoded_body)
  IN IF Returned(decoded_bytes) THEN Ok(utf8_decode_ignore(decoded_bytes.val))
     ELSE decoded_bytes

decode_body(encoded_body) ==
  LET decoded_bytes == urlsafe_b64decode(encoded_body)
  IN IF Returned(decoded_bytes) THEN Ok(utf8_decode_ignore(decoded_bytes.val))
     ELSE Ok(<<>>)

(***************************************************************************)
(* clean_html: html2text's HTML2Text.handle, any exception caught and the  *)
(* given string returned instead.                                          *)
(***************************************************************************)
\* The part of html2text's conversion that the generated bodies exercise,
\* with the options __init__ sets (ignore_emphasis = False): the tags <b> and
\* </b> become the emphasis mark "**", other text is kept, and the output
\* ends with a blank line.
RECURSIVE html2text_markup(_)
html2text_markup(html) ==
  IF html = <<>> THEN <<>>
  ELSE IF Len(html) >= 3 /\ SubSeq(html, 1, 3) = <<60, 98, 62>> THEN
    <<42, 42>> \o html2text_markup(SubSeq(html, 4, Len(html)))
  ELSE IF Len(html) >= 4 /\ SubSeq(html, 1, 4) = <<60, 47, 98, 62>> THEN
    <<42, 42>> \o html2text_markup(SubSeq(html, 5, Len(html)))
  ELSE <<Head(html)>> \o html2text_markup(Tail(html))

\* raises: the strings on which the converter fails (the library's own
\* faults are outside this repository; the code only provides for them).
html2text_handle(html, raises) ==
  IF html \in raises THEN Raise("Exception")
  ELSE Ok(html2text_markup(html) \o <<10, 10>>)

\* clean_html falling back to the empty string
clean_html_empty_on_failure(html_content, raises) ==
  LET converted == html2text_handle(html_content, raises)
  IN IF Returned(converted) THEN converted ELSE Ok(<<>>)

clean_html(html_content, raises) ==
  LET converted == html2text_handle(html_content, raises)
  IN IF Returned(converted) THEN converted ELSE Ok(html_content)

(***************************************************************************)
(* extract_body and _extract_from_parts.                                   *)
(*                                                                         *)
(* frames is the number of nested _extract_from_parts calls the            *)
(* interpreter still allows when extract_body runs (its recursion limit,   *)
(* 1000 frames by default, less the frames of the callers and of the calls *)
(* made at a leaf).  The code has no depth guard of its own, so the call   *)
(* that exceeds it raises RecursionError, which nothing here catches.      *)
(***************************************************************************)
RECURSIVE str_join(_, _)
str_join(sep, texts) ==
  IF texts = <<>> THEN <<>>
  ELSE IF Len(texts) = 1 THEN texts[1]
  ELSE texts[1] \o sep \o str_join(sep, Tail(texts))

IsTruthy(text) == text # <<>>

\* the join without filter(None, ...)
join_texts_unfiltered(texts) == str_join(<<10, 10>>, texts)

\* '\n\n'.join(filter(None, texts))
join_texts(texts) == str_join(<<10, 10>>, SelectSeq(texts, IsTruthy))

RECURSIVE _extract_from_parts(_, _, _)
RECURSIVE parts_loop(_, _, _, _, _)

\* The body of the for loop over parts, from the i-th part on, with the
\* texts collected so far.
parts_loop(parts, i, texts, frames, raises) ==
  IF i > Len(parts) THEN Ok(join_texts(texts))
  ELSE
    LET part == parts[i]
        mime_type == Get(part, "mimeType", "")
    IN IF "parts" \in DOMAIN part THEN
         LET nested == _extract_from_parts(part.parts, frames - 1, raises)
         IN IF Returned(nested)
            THEN parts_loop(parts, i + 1, Append(texts, nested.val), frames, raises)
            ELSE nested
       ELSE IF mime_type \in {"text/plain", "text/html"}
               /\ "data" \in DOMAIN Get(part, "body", EmptyDict) THEN
         LET decoded == decode_body(part.body.data)
             cleaned == IF Returned(decoded) /\ mime_type = "text/html"
                        THEN clean_html(decoded.val, raises)
                        ELSE decoded
         IN IF Returned(cleaned)
            THEN parts_loop(parts, i + 1, Append(texts, cleaned.val), frames, raises)
            ELSE cleaned
       ELSE parts_loop(parts, i + 1, texts, frames, raises)

_extract_from_parts(parts, frames, raises) ==
  IF frames <= 0 THEN Raise("RecursionError")
  ELSE parts_loop(parts, 1, <<>>, frames, raises)

extract_body(payload, frames, raises) ==
  IF /\ "body" \in DOMAIN payload
     /\ "data" \in DOMAIN payload.body
     /\ payload.body.data # <<>>
  THEN decode_body(payload.body.data)
  ELSE IF "parts" \in DOMAIN payload
  THEN _extract_from_parts(payload.parts, frames, raises)
  ELSE Ok(<<>>)

(***************************************************************************)
(* extract_headers.                                                        *)
(***************************************************************************)
\* the name taken as it is, .lower() forgotten
str_lower_forgotten(s) == s

\* str.lower on the ASCII letters (the generated names are ASCII)
str_lower(s) ==
  [i \in 1..Len(s) |-> IF s[i] \in 65..90 THEN s[i] + 32 ELSE s[i]]

\* a key that is already there keeps its value
dict_set_keep_first(d, k, v) ==
  [x \in DOMAIN d \cup {k} |-> IF x \in DOMAIN d THEN d[x] ELSE v]

\* header_dict[name] = value
dict_set(d, k, v) ==
  [x \in DOMAIN d \cup {k} |-> IF x = k THEN v ELSE d[x]]

RECURSIVE headers_loop(_, _, _)
headers_loop(headers, i, header_dict) ==
  IF i > Len(headers) THEN header_dict
  ELSE
    LET header == headers[i]
        name == str_lower(Get(header, "name", <<>>))
        value == Get(header, "value", "")
    IN headers_loop(headers, i + 1, dict_set(header_dict, name, value))

extract_headers(headers) == Ok(headers_loop(headers, 1, EmptyDict))

(***************************************************************************)
(* parse_date: email.utils.parsedate_to_datetime, any exception caught and *)
(* turned into None.                                                       *)
(***************************************************************************)
None == [type |-> "NoneType"]

datetime(y, mo, d, h, mi, sec, off) ==
  [type |-> "datetime", year |-> y, month |-> mo, day |-> d, hour |-> h,
   minute |-> mi, second |-> sec, utcoffset |-> off]

\* The library's parse of the generated date strings (utcoffset in minutes);
\* every other string is not a date, which the library reports by raising.
parsedate_to_datetime(date_str) ==
  IF date_str = "Mon, 6 Nov 2025 10:00:00 -0800"
  THEN Ok(datetime(2025, 11, 6, 10, 0, 0, -480))
  ELSE IF date_str = "Thu, 01 Jan 2026 00:00:00 +0530"
  THEN Ok(datetime(2026, 1, 1, 0, 0, 0, 330))
  ELSE Raise("ValueError")

\* parse_date without its try/except
parse_date_uncaught(date_str) == parsedate_to_datetime(date_str)

parse_date(date_str) ==
  LET parsed == parsedate_to_datetime(date_str)
  IN IF Returned(parsed) THEN parsed ELSE Ok(None)

Digits2(n) == IF n < 10 THEN "0" \o ToString(n) ELSE ToString(n)

Digits4(n) ==
  IF n < 10 THEN "000" \o ToString(n)
  ELSE IF n < 100 THEN "00" \o ToString(n)
  ELSE IF n < 1000 THEN "0" \o ToString(n)
  ELSE ToString(n)

\* datetime.isoformat() of a timezone-aware datetime without microseconds
isoformat(dt) ==
  LET off == IF dt.utcoffset < 0 THEN 0 - dt.utcoffset ELSE dt.utcoffset
  IN Digits4(dt.year) \o "-" \o Digits2(dt.month) \o "-" \o Digits2(dt.day)
       \o "T" \o Digits2(dt.hour) \o ":" \o Digits2(dt.minute) \o ":"
       \o Digits2(dt.second) \o (IF dt.utcoffset < 0 THEN "-" ELSE "+")
       \o Digits2(off \div 60) \o ":" \o Digits2(off % 60)

\* html_converter.handle(html) in the two halves that another caller of the
\* same converter can come between (html2text.HTML2Text.handle is
\* feed(data) followed by finish()): feed appends the converted markup to
\* the converter's outtextlist; finish joins the whole list, ends it with
\* the blank line, and leaves the list empty.
html2text_feed(converter, html) ==
  [converter EXCEPT !.outtextlist = Append(@, html2text_markup(html))]

html2text_finish(converter) ==
  [text |-> str_join(<<>>, converter.outtextlist) \o <<10, 10>>,
   converter |-> [converter EXCEPT !.outtextlist = <<>>]]

(***************************************************************************)
(* parse_message.                                                          *)
(***************************************************************************)
\* the keys 'subject', 'from', 'to', 'date'
KeySubject == <<115, 117, 98, 106, 101, 99, 116>>

KeyFrom == <<102, 114, 111, 109>>

KeyTo == <<116, 111>>

KeyDate == <<100, 97, 116, 101>>

parse_message(message, frames, raises) ==
  LET message_id == Get(message, "id", "")
      thread_id == Get(message, "threadId", "")
      payload == Get(message, "payload", EmptyDict)
      headers == extract_headers(Get(payload, "headers", <<>>))
      body == extract_body(payload, frames, raises)
      date_str == Get(headers.val, KeyDate, "")
      parsed_date == IF date_str # "" THEN parse_date(date_str) ELSE Ok(None)
  IN IF ~Returned(headers) THEN headers
     ELSE IF ~Returned(body) THEN body
     ELSE IF ~Returned(parsed_date) THEN parsed_date
     ELSE Ok([id |-> message_id,
              thread_id |-> thread_id,
              subject |-> Get(headers.val, KeySubject, "No Subject"),
              sender |-> Get(headers.val, KeyFrom, "Unknown"),
              to |-> Get(headers.val, KeyTo, ""),
              date |-> IF parsed_date.val # None
                       THEN isoformat(parsed_date.val) ELSE "",
              body |-> body.val,
              snippet |-> Get(message, "snippet", "")])

(***************************************************************************)
(* extract_urls and calculate_metadata.                                    *)
(***************************************************************************)
\* the characters str.split() and the pattern's \s treat as whitespace
Whitespace == {9, 10, 11, 12, 13, 28, 29, 30, 31, 32, 133, 160}

\* [^\s<>"{}|\\^`\[\]]
UrlChar(c) == c \notin Whitespace \cup {60, 62, 34, 123, 125, 124, 92, 94, 96, 91, 93}

\* length of the https?:// found at position i, 0 when there is none
SchemeLen(s, i) ==
  IF i + 6 <= Len(s) /\ SubSeq(s, i, i + 6) = <<104, 116, 116, 112, 58, 47, 47>>
  THEN 7
  ELSE IF i + 7 <= Len(s)
          /\ SubSeq(s, i, i + 7) = <<104, 116, 116, 112, 115, 58, 47, 47>>
  THEN 8
  ELSE 0

\* re.findall scans left to right and each match runs on to the first
\* character the class excludes, so a match starts where the pattern fits
\* and no earlier match runs over the place.
extract_urls(content) ==
  LET fits == {i \in 1..Len(content) :
                 /\ SchemeLen(content, i) > 0
                 /\ i + SchemeLen(content, i) <= Len(content)
                 /\ UrlChar(content[i + SchemeLen(content, i)])}
  IN {i \in fits :
        ~\E j \in fits :
           /\ j < i
           /\ \A k \in (j + SchemeLen(content, j))..i : UrlChar(content[k])}

\* len(body.split()): a word starts at every character that is not
\* whitespace and follows whitespace or the start of the string
split_len(body) ==
  Cardinality({i \in 1..Len(body) :
                 /\ body[i] \notin Whitespace
                 /\ (i = 1 \/ body[i - 1] \in Whitespace)})

\* the floor of one minute forgotten
Max_floor_forgotten(a, b) == b

\* max(1, len(words) // 200)
Max(a, b) == IF a >= b THEN a ELSE b

calculate_metadata(parsed_email) ==
  LET body == Get(parsed_email, "body", <<>>)
      words == split_len(body)
  IN Ok([word_count |-> words,
         char_count |-> Len(body),
         has_attachments |-> FALSE,
         url_count |-> Cardinality(extract_urls(body)),
         estimated_read_time_minutes |-> Max(1, words \div 200)])

(***************************************************************************)
(* extract_sender_name and extract_sender_email.                           *)
(***************************************************************************)
\* str.strip(chars): the leading and the trailing characters of the set go
RECURSIVE str_strip(_, _)
str_strip(s, chars) ==
  IF s = <<>> THEN s
  ELSE IF Head(s) \in chars THEN str_strip(Tail(s), chars)
  ELSE IF s[Len(s)] \in chars THEN str_strip(SubSeq(s, 1, Len(s) - 1), chars)
  ELSE s

\* re.match(r'^(.+?)\s*<', sender): the lengths the group (.+?) can take.
\* The group starts at the first character, has one character at least and
\* no newline ('.' matches none); after it come whitespace characters and
\* then '<'.
name_group_ends(sender) ==
  {k \in 1..Len(sender) :
     /\ \A i \in 1..k : sender[i] # 10
     /\ \E j \in k..(Len(sender) - 1) :
          /\ \A i \in (k + 1)..j : sender[i] \in Whitespace
          /\ sender[j + 1] = 60}

extract_sender_name(sender) ==
  LET ends == name_group_ends(sender)
      \* the group is lazy: the shortest
      k == CHOOSE e \in ends : \A f \in ends : e <= f
  IN IF ends # {} THEN Ok(str_strip(SubSeq(sender, 1, k), {34}))
     ELSE Ok(sender)

\* re.search(r'<(.+?)>', sender): the places <<i, e>> of a '<' and a '>'
\* with one character at least and no newline between them.
email_group_places(sender) ==
  {p \in (1..Len(sender)) \X (1..Len(sender)) :
     /\ sender[p[1]] = 60
     /\ p[2] >= p[1] + 2
     /\ sender[p[2]] = 62
     /\ \A i \in (p[1] + 1)..(p[2] - 1) : sender[i] # 10}

extract_sender_email(sender) ==
  LET places == email_group_places(sender)
      \* the search takes the leftmost '<' that matches, the lazy group the
      \* nearest '>' after it
      p == CHOOSE q \in places :
             \A r \in places : q[1] < r[1] \/ (q[1] = r[1] /\ q[2] <= r[2])
  IN IF places # {} THEN Ok(SubSeq(sender, p[1] + 1, p[2] - 1))
     ELSE IF 64 \in {sender[i] : i \in 1..Len(sender)} THEN Ok(sender)
     ELSE Ok(<<>>)

(***************************************************************************)
(* GmailAuth (gmail_auth.py).                                              *)
(*                                                                         *)
(* Credentials are what the code reads of them: whether an access token is *)
(* held, whether a refresh token is held, and the time the access token    *)
(* runs out.  The calls on google.oauth2, google_auth_oauthlib and         *)
(* googleapiclient are taken to succeed: get_credentials and               *)
(* get_gmail_service have no handler for their failures.                   *)
(***************************************************************************)
Credentials(token, refresh_token, expiry) ==
  [token |-> token, refresh_token |-> refresh_token, expiry |-> expiry]

\* Credentials.expired and Credentials.valid at time t
expired(credentials, t) == t >= credentials.expiry

valid(credentials, t) == credentials.token /\ ~expired(credentials, t)

\* Credentials.to_json and Credentials.from_authorized_user_file: the text of
\* the token file lists the three values
to_json(credentials) ==
  <<credentials.token, credentials.refresh_token, credentials.expiry>>

from_authorized_user_file(file) ==
  Credentials(file.text[1], file.text[2], file.text[3])

\* Credentials.refresh at time t: a new access token, good until the next
\* tick of the clock
refresh(credentials, t) == Credentials(TRUE, credentials.refresh_token, t + 1)

\* InstalledAppFlow.run_local_server at time t; offline: whether the grant
\* comes with a refresh token
run_local_server(t, offline) == Credentials(TRUE, offline, t + 1)

\* googleapiclient.discovery.build('gmail', 'v1', credentials=credentials)
build(credentials) ==
  [serviceName |-> "gmail", version |-> "v1", credentials |-> credentials]

\* a path with no file, and a file with its text
NoFile == [exists |-> FALSE]

File(text) == [exists |-> TRUE, text |-> text]

\* save_credentials leaving the token file as it was
save_credentials_skipped(file, credentials) == file

\* save_credentials: the token file (file) is replaced
save_credentials(file, credentials) == File(to_json(credentials))

\* the refresh branch never taken
needs_refresh_never(credentials, t) == FALSE

\* line 89
needs_refresh(credentials, t) ==
  /\ credentials # None
  /\ expired(credentials, t)
  /\ credentials.refresh_token

\* the check of the credentials file left out
credentials_missing_unchecked(file_exists) == FALSE

\* line 100
credentials_missing(file_exists) == ~file_exists

\* the credentials as they were loaded written to the token file
saved_before_refresh(loaded, refreshed) == loaded

\* lines 91-92: save_credentials gets the credentials after refresh has
\* changed them
saved_after_refresh(loaded, refreshed) == refreshed

\* get_credentials on an object with the given _credentials, the given
\* files, at time t.  The result says what the call returns or raises, what
\* it leaves in _credentials and in the token file, and the calls it made.
get_credentials(cached, token, file_exists, t, offline) ==
  IF cached # None /\ valid(cached, t) THEN
    [ret |-> Ok(cached), _credentials |-> cached, token_file |-> token,
     calls |-> <<>>]
  ELSE
    LET loaded == IF token.exists THEN from_authorized_user_file(token)
                  ELSE cached
        loads == IF token.exists THEN <<"from_authorized_user_file">>
                 ELSE <<>>
    IN IF needs_refresh(loaded, t) THEN
         LET refreshed == refresh(loaded, t)
         IN [ret |-> Ok(refreshed), _credentials |-> refreshed,
             token_file |-> save_credentials(
                              token, saved_after_refresh(loaded, refreshed)),
             calls |-> loads \o <<"refresh", "save_credentials">>]
       ELSE IF loaded # None /\ valid(loaded, t) THEN
         [ret |-> Ok(loaded), _credentials |-> loaded, token_file |-> token,
          calls |-> loads]
       ELSE IF credentials_missing(file_exists) THEN
         [ret |-> Raise("FileNotFoundError"), _credentials |-> loaded,
          token_file |-> token, calls |-> loads]
       ELSE
         LET granted == run_local_server(t, offline)
         IN [ret |-> Ok(granted), _credentials |-> granted,
             token_file |-> save_credentials(token, granted),
             calls |-> loads \o <<"from_client_secrets_file",
                                  "run_local_server", "save_credentials">>]

\* the cached service never looked at
service_cached_ignored(service) == FALSE

\* line 139
service_cached(service) == service # None

\* get_gmail_service; the result as for get_credentials, with _service
get_gmail_service(service, cached, token, file_exists, t, offline) ==
  IF service_cached(service) THEN
    [ret |-> Ok(service), _service |-> service, _credentials |-> cached,
     token_file |-> token, calls |-> <<>>]
  ELSE
    LET got == get_credentials(cached, token, file_exists, t, offline)
    IN IF Returned(got.ret) THEN
         [ret |-> Ok(build(got.ret.val)), _service |-> build(got.ret.val),
          _credentials |-> got._credentials, token_file |-> got.token_file,
          calls |-> <<"get_credentials">> \o got.calls \o <<"build">>]
       ELSE
         [ret |-> got.ret, _service |-> service,
          _credentials |-> got._credentials, token_file |-> got.token_file,
          calls |-> <<"get_credentials">> \o got.calls]

\* test_connection; profile: what users().getProfile().execute() does
test_connection(service, cached, token, file_exists, t, offline, profile) ==
  LET got == get_gmail_service(service, cached, token, file_exists, t, offline)
      failed == [got EXCEPT !.ret = Ok([success |-> FALSE])]
  IN IF ~Returned(got.ret) THEN failed
     ELSE IF profile # "profile" THEN
       [failed EXCEPT !.calls = @ \o <<"getProfile">>]
     ELSE [got EXCEPT !.ret = Ok([success |-> TRUE]),
                      !.calls = @ \o <<"getProfile">>]

(***************************************************************************)
(* EmailFetcher (email_fetcher.py).                                        *)
(*                                                                         *)
(* A date is its proleptic Gregorian ordinal, as in datetime: day 1 is     *)
(* 0001-01-01 and day 3652059 is 9999-12-31.  The arguments of a call are  *)
(* its keyword dict; an argument left out or passed as None is a key the   *)
(* dict does not have.                                                     *)
(***************************************************************************)
\* timedelta(days=days): more than 999999999 days either way is refused
timedelta(days) ==
  IF days > 999999999 \/ days < -999999999 THEN Raise("OverflowError")
  ELSE Ok(days)

\* datetime - timedelta: the result must be a date datetime has
datetime_sub(ordinal, days) ==
  IF ordinal - days < 1 \/ ordinal - days > 3652059 THEN Raise("OverflowError")
  ELSE Ok(ordinal - days)

DaysBeforeMonth == <<0, 31, 59, 90, 120, 151, 181, 212, 243, 273, 304, 334>>

\* year, month and day of an ordinal (datetime's _ord2ymd)
ord2ymd(ordinal) ==
  LET n0 == ordinal - 1
      n400 == n0 \div 146097
      r400 == n0 % 146097
      n100 == r400 \div 36524
      r100 == r400 % 36524
      n4 == r100 \div 1461
      r4 == r100 % 1461
      n1 == r4 \div 365
      n == r4 % 365
      year == n400 * 400 + 1 + n100 * 100 + n4 * 4 + n1
      leapyear == n1 = 3 /\ (n4 # 24 \/ n100 = 3)
      Preceding(m) == DaysBeforeMonth[m] + IF m > 2 /\ leapyear THEN 1 ELSE 0
      month == IF Preceding((n + 50) \div 32) > n THEN (n + 50) \div 32 - 1
               ELSE (n + 50) \div 32
  IN IF n1 = 4 \/ n100 = 4 THEN <<year - 1, 12, 31>>
     ELSE <<year, month, n - Preceding(month) + 1>>

\* strftime('%Y/%m/%d'); %Y is the year's digits, four from year 1000 on
strftime(ordinal) ==
  LET ymd == ord2ymd(ordinal)
  IN ToString(ymd[1]) \o "/" \o Digits2(ymd[2]) \o "/" \o Digits2(ymd[3])

\* build_date_query on the day today
build_date_query(days_back, today) ==
  LET delta == timedelta(days_back)
      date_filter == datetime_sub(today, days_back)
  IN IF ~Returned(delta) THEN delta
     ELSE IF ~Returned(date_filter) THEN date_filter
     ELSE Ok("after:" \o strftime(date_filter.val))

\* the date filter added to every custom query
date_filter_wanted_always(days_back) == TRUE

\* line 51: if days_back
date_filter_wanted(days_back) == days_back # 0

\* lines 47-53: the query string
build_query(kwargs, today) ==
  LET date_query == build_date_query(kwargs.days_back, today)
  IN IF "query" \notin DOMAIN kwargs THEN date_query
     ELSE IF ~date_filter_wanted(kwargs.days_back) THEN Ok(kwargs.query)
     ELSE IF ~Returned(date_query) THEN date_query
     ELSE Ok(kwargs.query \o " " \o date_query.val)

\* lines 56-63
request_params(kwargs, query) ==
  LET params == [userId |-> "me", q |-> query, maxResults |-> kwargs.max_results]
  IN IF "label_ids" \in DOMAIN kwargs /\ kwargs.label_ids # <<>>
     THEN params @@ [labelIds |-> kwargs.label_ids]
     ELSE params

\* fetch_messages; service is what users().messages().list(...).execute()
\* does: it returns a response or raises.  The result says what the call
\* returns or raises and the requests it sent.
fetch_messages(kwargs, today, service) ==
  LET query == build_query(kwargs, today)
      request == [name |-> "list", kwargs |-> request_params(kwargs, query.val)]
  IN IF ~Returned(query) THEN [ret |-> query, calls |-> <<>>]
     ELSE IF ~Returned(service) THEN [ret |-> Ok(<<>>), calls |-> <<request>>]
     ELSE [ret |-> Ok(Get(service.val, "messages", <<>>)),
           calls |-> <<request>>]

\* fetch_message_by_id; service is what users().messages().get(...).execute()
\* does
fetch_message_by_id(message_id, service) ==
  LET request == [name |-> "get", kwargs |-> [userId |-> "me", id |-> message_id]]
  IN IF ~Returned(service) THEN [ret |-> Ok(EmptyDict), calls |-> <<request>>]
     ELSE [ret |-> service, calls |-> <<request>>]

\* fetch_unread_messages, fetch_from_sender and fetch_by_subject: a query
\* of their own, then fetch_messages
fetch_unread_messages(kwargs, today, service) ==
  fetch_messages(kwargs @@ [query |-> "is:unread"], today, service)

fetch_from_sender(sender_email, kwargs, today, service) ==
  fetch_messages(kwargs @@ [query |-> "from:" \o sender_email], today, service)

fetch_by_subject(subject, kwargs, today, service) ==
  fetch_messages(kwargs @@ [query |-> "subject:" \o subject], today, service)

(***************************************************************************)
(* Inputs: transport-encoded bodies.                                       *)
(***************************************************************************)
\* "QQ==" encodes "A"
EncA == <<81, 81, 61, 61>>
\* "Qg==" encodes "B"
EncB == <<81, 103, 61, 61>>
\* "CgpB" encodes "\n\nA"
EncNlNlA == <<67, 103, 112, 66>>
\* "PGI-QTwvYj4=" encodes "<b>A</b>" (url-safe alphabet: '-' for '+')
EncHtmlBoldA == <<80, 71, 73, 45, 81, 84, 119, 118, 89, 106, 52, 61>>
\* "!!!not-base64!!!"
EncNotBase64 == <<33, 33, 33, 110, 111, 116, 45, 98, 97, 115, 101, 54, 52, 33, 33, 33>>
\* "Qf8=" encodes the bytes 41 FF: "A" and a byte that is never valid UTF-8
EncAInvalidUtf8 == <<81, 102, 56, 61>>
\* "w6k=" encodes the bytes C3 A9: U+00E9
EncEAcute == <<119, 54, 107, 61>>
\* "!QQ==" : "QQ==" behind a character outside the alphabet
EncJunkA == <<33, 81, 81, 61, 61>>
\* "QQ" : "A" with its padding missing
EncNoPadding == <<81, 81>>
\* "Qé==" : a non-ASCII character in the data
EncNonAscii == <<81, 233, 61, 61>>

EncodedBodies ==
  {<<>>, EncA, EncB, EncNlNlA, EncHtmlBoldA, EncNotBase64, EncAInvalidUtf8,
   EncEAcute, EncJunkA, EncNoPadding, EncNonAscii}

(***************************************************************************)
(* Inputs: part trees.  A node is a leaf (mimeType, and a body that may    *)
(* lack its data) or a container (parts); no generated node is both.       *)
(***************************************************************************)
MimeTypes == {"text/plain", "text/html", "image/png"}

Leaf(m, e) == [mimeType |-> m, body |-> [size |-> Len(e), data |-> e]]

LeafWithoutData(m) == [mimeType |-> m, body |-> [size |-> 0]]

LeafWithoutBody(m) == [mimeType |-> m]

Container(children) == [mimeType |-> "multipart/mixed", parts |-> children]

\* the bodies of the generated html leaves: "", "A", "<b>A</b>" and one the
\* decoder rejects
HtmlBodies == {<<>>, EncA, EncHtmlBoldA, EncNotBase64}

\* every leaf: each mime type with each encoded body (html: each html body),
\* without data, without body
Leaves ==
  {Leaf(m, e) : m \in MimeTypes \ {"text/html"}, e \in EncodedBodies}
    \cup {Leaf("text/html", e) : e \in HtmlBodies}
    \cup {LeafWithoutData(m) : m \in MimeTypes}
    \cup {LeafWithoutBody(m) : m \in MimeTypes}

\* the children the generated containers are built from
Children ==
  {Leaf("text/plain", EncA), Leaf("text/plain", EncB), Leaf("text/plain", <<>>),
   Leaf("text/plain", EncNotBase64), Leaf("text/plain", EncNlNlA),
   Leaf("text/html", EncHtmlBoldA), Leaf("text/html", EncNotBase64),
   Leaf("image/png", EncA), LeafWithoutData("text/plain"),
   [parts |-> <<>>],
   Container(<<Leaf("text/plain", EncB)>>),
   Container(<<Leaf("text/html", EncHtmlBoldA), Leaf("text/plain", <<>>),
               Leaf("text/plain", EncA)>>)}

SeqsUpTo(S, n) == UNION {[1..k -> S] : k \in 0..n}

Containers == {Container(c) : c \in SeqsUpTo(Children, MaxChildren)}

\* leaf wrapped in k nested containers
RECURSIVE Nested(_, _)
Nested(k, leaf) == IF k = 0 THEN leaf ELSE Container(<<Nested(k - 1, leaf)>>)

DeepTrees ==
  {Nested(k, l) : k \in 1..MaxDepth,
                  l \in {Leaf("text/plain", EncA), Leaf("text/html", EncHtmlBoldA)}}
    \cup {Container(<<Leaf("text/plain", EncA),
                      Nested(k, Leaf("text/plain", EncB)),
                      Leaf("text/plain", EncA)>>) : k \in 1..MaxDepth - 1}

\* the decoded texts of the generated html leaves
HtmlTexts == {<<>>, <<65>>, <<60, 98, 62, 65, 60, 47, 98, 62>>}

\* the converter fails on nothing, on the marked-up text, or on everything
RaisesChoices == {{}, {<<60, 98, 62, 65, 60, 47, 98, 62>>}, HtmlTexts}

\* Wide trees are extracted with frames to spare, deep ones with every
\* number of frames.
ExtractInputs ==
  ((Leaves \cup Containers) \X {MaxFrames} \X RaisesChoices)
    \cup (DeepTrees \X (1..MaxFrames) \X RaisesChoices)

(***************************************************************************)
(* Inputs: header lists, messages, bodies for the metadata.                *)
(***************************************************************************)
Header(n, v) == [name |-> n, value |-> v]

\* "Subject", "SUBJECT", "From", "To", "Date", "date", "DATE", "X-Mailer"
HeaderPairs ==
  {Header(<<83, 117, 98, 106, 101, 99, 116>>, "AI Weekly"),
   Header(<<83, 85, 66, 74, 69, 67, 84>>, "Re: AI Weekly "),
   Header(<<70, 114, 111, 109>>, "newsletter@example.com"),
   Header(<<84, 111>>, "me@example.com"),
   Header(<<68, 97, 116, 101>>, "Mon, 6 Nov 2025 10:00:00 -0800"),
   Header(<<100, 97, 116, 101>>, "not a date"),
   Header(<<68, 65, 84, 69>>, ""),
   Header(<<68, 97, 116, 101>>, "Thu, 01 Jan 2026 00:00:00 +0530"),
   Header(<<88, 45, 77, 97, 105, 108, 101, 114>>, "AI Weekly")}

HeaderLists == SeqsUpTo(HeaderPairs, MaxHeaders)

DateStrings ==
  {"", "Mon, 6 Nov 2025 10:00:00 -0800", "Thu, 01 Jan 2026 00:00:00 +0530",
   "not a date"}

\* the payloads of the generated messages, each with the frames it is parsed
\* under and the strings the converter fails on
MessagePayloads ==
  ({Leaf("text/plain", EncA), LeafWithoutBody("text/plain"),
    Container(<<Leaf("text/plain", EncA), Leaf("text/html", EncHtmlBoldA)>>)}
     \X {MaxFrames} \X {{}})
    \cup ({Nested(MaxDepth, Leaf("text/plain", EncNotBase64))}
            \X {MaxDepth - 1, MaxDepth} \X {HtmlTexts})

Message(payload, headers) ==
  [id |-> "test_message_123", threadId |-> "thread_456",
   snippet |-> "This week in AI", payload |-> payload @@ [headers |-> headers]]

\* n words: "A A ... A "
Words(n) == [i \in 1..(2 * n) |-> IF i % 2 = 1 THEN 65 ELSE 32]

\* most words in a generated body
MaxWords == 400

\* "Hello world", "  A \n\tB  ", "see http://a.b/c and https://d <http://e>"
MetadataBodies ==
  {<<>>, <<32, 10>>,
   <<72, 101, 108, 108, 111, 32, 119, 111, 114, 108, 100>>,
   <<32, 32, 65, 32, 10, 9, 66, 32, 32>>,
   <<115, 101, 101, 32, 104, 116, 116, 112, 58, 47, 47, 97, 46, 98, 47, 99,
     32, 97, 110, 100, 32, 104, 116, 116, 112, 115, 58, 47, 47, 100, 32, 60,
     104, 116, 116, 112, 58, 47, 47, 101, 62>>}
    \cup {Words(n) : n \in {1, 199, 200, 201, 399, MaxWords}}

\* the characters of the generated sender strings: < > " space newline @ a
SenderChars == {60, 62, 34, 32, 10, 64, 97}

\* longest generated sender string
MaxSenderLen == 4

\* '"Jane Doe" <jane@example.com>' and 'newsletter@example.com'
SenderSamples ==
  {<<34, 74, 97, 110, 101, 32, 68, 111, 101, 34, 32, 60, 106, 97, 110, 101,
     64, 101, 120, 97, 109, 112, 108, 101, 46, 99, 111, 109, 62>>,
   <<110, 101, 119, 115, 108, 101, 116, 116, 101, 114, 64, 101, 120, 97,
     109, 112, 108, 101, 46, 99, 111, 109>>}

Senders == SeqsUpTo(SenderChars, MaxSenderLen) \cup SenderSamples

(***************************************************************************)
(* The parser after construction, and one action per public operation.     *)
(***************************************************************************)
NoEnv == [frames |-> 0, raises |-> {}]

\* the callers that may be inside parse_message at once
Threads == {1, 2}

IdleThread == [pc |-> "idle", message |-> EmptyDict, i |-> 0, texts |-> <<>>,
               ret |-> Ok(<<>>)]

\* EmailParser.__init__: the one converter; outtextlist is the output the
\* converter has collected and not yet handed out.
\* GmailAuth.__init__: nothing cached; here no file exists either.
Init ==
  /\ html_converter = [ignore_links |-> FALSE, ignore_images |-> FALSE,
                       ignore_emphasis |-> FALSE, outtextlist |-> <<>>]
  /\ op = "init"
  /\ arg = <<>>
  /\ env = NoEnv
  /\ ret = Ok(<<>>)
  /\ threads = [t \in Threads |-> IdleThread]
  /\ _credentials = None
  /\ _service = None
  /\ token_file = NoFile
  /\ credentials_file = FALSE
  /\ now = 0
  /\ calls = <<>>

\* A caller takes the result of the finished call; the parser is idle again.
Return ==
  /\ op # "init"
  /\ op' = "init"
  /\ arg' = <<>>
  /\ env' = NoEnv
  /\ ret' = Ok(<<>>)
  /\ UNCHANGED <<html_converter, threads, auth_vars>>

DecodeBody ==
  /\ op = "init"
  /\ \E encoded_body \in EncodedBodies :
       /\ op' = "decode_body"
       /\ arg' = encoded_body
       /\ env' = NoEnv
       /\ ret' = decode_body(encoded_body)
       /\ UNCHANGED <<html_converter, threads, auth_vars>>

CleanHtml ==
  /\ op = "init"
  /\ \E html_content \in HtmlTexts, raises \in RaisesChoices :
       /\ op' = "clean_html"
       /\ arg' = html_content
       /\ env' = [frames |-> 0, raises |-> raises]
       /\ ret' = clean_html(html_content, raises)
       /\ UNCHANGED <<html_converter, threads, auth_vars>>

ExtractBody ==
  /\ op = "init"
  /\ \E input \in ExtractInputs :
       /\ op' = "extract_body"
       /\ arg' = input[1]
       /\ env' = [frames |-> input[2], raises |-> input[3]]
       /\ ret' = extract_body(input[1], input[2], input[3])
       /\ UNCHANGED <<html_converter, threads, auth_vars>>

ExtractHeaders ==
  /\ op = "init"
  /\ \E headers \in HeaderLists :
       /\ op' = "extract_headers"
       /\ arg' = headers
       /\ env' = NoEnv
       /\ ret' = extract_headers(headers)
       /\ UNCHANGED <<html_converter, threads, auth_vars>>

ParseDate ==
  /\ op = "init"
  /\ \E date_str \in DateStrings :
       /\ op' = "parse_date"
       /\ arg' = date_str
       /\ env' = NoEnv
       /\ ret' = parse_date(date_str)
       /\ UNCHANGED <<html_converter, threads, auth_vars>>

ParseMessage ==
  /\ op = "init"
  /\ \E input \in MessagePayloads, headers \in HeaderLists :
       /\ op' = "parse_message"
       /\ arg' = Message(input[1], headers)
       /\ env' = [frames |-> input[2], raises |-> input[3]]
       /\ ret' = parse_message(Message(input[1], headers), input[2], input[3])
       /\ UNCHANGED <<html_converter, threads, auth_vars>>

\* a message without any key
ParseEmptyMessage ==
  /\ op = "init"
  /\ op' = "parse_message"
  /\ arg' = EmptyDict
  /\ env' = [frames |-> MaxFrames, raises |-> {}]
  /\ ret' = parse_message(EmptyDict, MaxFrames, {})
  /\ UNCHANGED <<html_converter, threads, auth_vars>>

CalculateMetadata ==
  /\ op = "init"
  /\ \E body \in MetadataBodies :
       /\ op' = "calculate_metadata"
       /\ arg' = [body |-> body]
       /\ env' = NoEnv
       /\ ret' = calculate_metadata([body |-> body])
       /\ UNCHANGED <<html_converter, threads, auth_vars>>

ExtractSenderName ==
  /\ op = "init"
  /\ \E sender \in Senders :
       /\ op' = "extract_sender_name"
       /\ arg' = sender
       /\ env' = NoEnv
       /\ ret' = extract_sender_name(sender)
       /\ UNCHANGED <<html_converter, threads, auth_vars>>

ExtractSenderEmail ==
  /\ op = "init"
  /\ \E sender \in Senders :
       /\ op' = "extract_sender_email"
       /\ arg' = sender
       /\ env' = NoEnv
       /\ ret' = extract_sender_email(sender)
       /\ UNCHANGED <<html_converter, threads, auth_vars>>

Next ==
  \/ DecodeBody
  \/ CleanHtml
  \/ ExtractBody
  \/ ExtractHeaders
  \/ ParseDate
  \/ ParseMessage
  \/ ParseEmptyMessage
  \/ CalculateMetadata
  \/ ExtractSenderName
  \/ ExtractSenderEmail
  \/ Return

Spec == Init /\ [][Next]_vars

(***************************************************************************)
(* Concurrent callers of parse_message on one parser.                      *)
(*                                                                         *)
(* Each caller runs parse_message as in the code; the steps are the places *)
(* where its run touches what the callers share, the parser's              *)
(* html_converter: one step per part of the loop of _extract_from_parts,   *)
(* and for a text/html part the two halves of html_converter.handle.  The  *)
(* payloads are multipart with leaves only, so every message takes the     *)
(* path extract_body -> _extract_from_parts without recursion.             *)
(***************************************************************************)
ThreadLeaves ==
  {Leaf("text/plain", EncB), Leaf("text/html", EncHtmlBoldA),
   Leaf("image/png", EncA)}

ThreadMessages ==
  {Message(Container(c), <<>>) : c \in SeqsUpTo(ThreadLeaves, 2)}

\* lines 41-49 and 99-103: up to the loop over the parts
ThreadCall(t) ==
  /\ threads[t].pc = "idle"
  /\ \E message \in ThreadMessages :
       threads' = [threads EXCEPT ![t] =
                     [pc |-> "parts", message |-> message, i |-> 1,
                      texts |-> <<>>, ret |-> Ok(<<>>)]]
  /\ UNCHANGED <<html_converter, op, arg, env, ret, auth_vars>>

\* lines 116-135: one part of the loop; for a text/html part up to the
\* middle of html_converter.handle
ThreadPart(t) ==
  LET self == threads[t]
      parts == self.message.payload.parts
      part == parts[self.i]
      mime_type == Get(part, "mimeType", "")
  IN /\ self.pc = "parts"
     /\ self.i <= Len(parts)
     /\ IF mime_type \in {"text/plain", "text/html"}
           /\ "data" \in DOMAIN Get(part, "body", EmptyDict)
        THEN IF mime_type = "text/html"
             THEN /\ html_converter' =
                       html2text_feed(html_converter,
                                      decode_body(part.body.data).val)
                  /\ threads' = [threads EXCEPT ![t].pc = "handle"]
             ELSE /\ threads' =
                       [threads EXCEPT
                          ![t].texts = Append(@, decode_body(part.body.data).val),
                          ![t].i = @ + 1]
                  /\ UNCHANGED html_converter
        ELSE /\ threads' = [threads EXCEPT ![t].i = @ + 1]
             /\ UNCHANGED html_converter
     /\ UNCHANGED <<op, arg, env, ret, auth_vars>>

\* line 168 and 135: the rest of html_converter.handle, its text appended
ThreadHandle(t) ==
  LET finished == html2text_finish(html_converter)
  IN /\ threads[t].pc = "handle"
     /\ html_converter' = finished.converter
     /\ threads' = [threads EXCEPT ![t].texts = Append(@, finished.text),
                                   ![t].i = @ + 1,
                                   ![t].pc = "parts"]
     /\ UNCHANGED <<op, arg, env, ret, auth_vars>>

\* lines 137 and 51-63: the join after the loop, and the record, whose other
\* fields parse_message takes from the message alone
ThreadReturn(t) ==
  LET self == threads[t]
  IN /\ self.pc = "parts"
     /\ self.i > Len(self.message.payload.parts)
     /\ threads' =
          [threads EXCEPT
             ![t].pc = "done",
             ![t].ret = Ok([parse_message(self.message, MaxFrames, {}).val
                              EXCEPT !.body = join_texts(self.texts)])]
     /\ UNCHANGED <<html_converter, op, arg, env, ret, auth_vars>>

\* the caller takes its record
ThreadCollect(t) ==
  /\ threads[t].pc = "done"
  /\ threads' = [threads EXCEPT ![t] = IdleThread]
  /\ UNCHANGED <<html_converter, op, arg, env, ret, auth_vars>>

ThreadNext ==
  \E t \in Threads :
    \/ ThreadCall(t)
    \/ ThreadPart(t)
    \/ ThreadHandle(t)
    \/ ThreadReturn(t)
    \/ ThreadCollect(t)

ThreadSpec == Init /\ [][ThreadNext]_vars

(***************************************************************************)
(* One GmailAuth object, its two files and the clock.                      *)
(***************************************************************************)
\* last tick of the clock
MaxTime == 3

\* credentials that a token file written earlier may hold
StoredCredentials ==
  {Credentials(token, refresh_token, expiry) :
     token \in BOOLEAN, refresh_token \in BOOLEAN, expiry \in 0..1}

\* GmailAuth.__init__ with the files as the object finds them
AuthInit ==
  /\ html_converter = [ignore_links |-> FALSE, ignore_images |-> FALSE,
                       ignore_emphasis |-> FALSE, outtextlist |-> <<>>]
  /\ op = "init"
  /\ arg = <<>>
  /\ env = NoEnv
  /\ ret = Ok(<<>>)
  /\ threads = [t \in Threads |-> IdleThread]
  /\ _credentials = None
  /\ _service = None
  /\ token_file \in {NoFile} \cup {File(to_json(c)) : c \in StoredCredentials}
  /\ credentials_file \in BOOLEAN
  /\ now = 0
  /\ calls = <<>>

GetCredentials ==
  \E offline \in BOOLEAN :
    LET done == get_credentials(_credentials, token_file, credentials_file,
                                now, offline)
    IN /\ op' = "get_credentials"
       /\ arg' = <<>>
       /\ env' = [offline |-> offline]
       /\ ret' = done.ret
       /\ _credentials' = done._credentials
       /\ token_file' = done.token_file
       /\ calls' = done.calls
       /\ UNCHANGED <<html_converter, threads, _service, credentials_file, now>>

SaveCredentials ==
  \E credentials \in StoredCredentials :
    /\ op' = "save_credentials"
    /\ arg' = credentials
    /\ env' = NoEnv
    /\ ret' = Ok(None)
    /\ token_file' = save_credentials(token_file, credentials)
    /\ calls' = <<>>
    /\ UNCHANGED <<html_converter, threads, _credentials, _service,
                   credentials_file, now>>

GetGmailService ==
  \E offline \in BOOLEAN :
    LET done == get_gmail_service(_service, _credentials, token_file,
                                  credentials_file, now, offline)
    IN /\ op' = "get_gmail_service"
       /\ arg' = <<>>
       /\ env' = [offline |-> offline]
       /\ ret' = done.ret
       /\ _service' = done._service
       /\ _credentials' = done._credentials
       /\ token_file' = done.token_file
       /\ calls' = done.calls
       /\ UNCHANGED <<html_converter, threads, credentials_file, now>>

TestConnection ==
  \E offline \in BOOLEAN, profile \in {"profile", "HttpError", "Exception"} :
    LET done == test_connection(_service, _credentials, token_file,
                                credentials_file, now, offline, profile)
    IN /\ op' = "test_connection"
       /\ arg' = <<>>
       /\ env' = [offline |-> offline, profile |-> profile]
       /\ ret' = done.ret
       /\ _service' = done._service
       /\ _credentials' = done._credentials
       /\ token_file' = done.token_file
       /\ calls' = done.calls
       /\ UNCHANGED <<html_converter, threads, credentials_file, now>>

\* the clock ticks between two calls
TimePasses ==
  /\ now < MaxTime
  /\ now' = now + 1
  /\ op' = "time_passes"
  /\ arg' = <<>>
  /\ env' = NoEnv
  /\ ret' = Ok(None)
  /\ calls' = <<>>
  /\ UNCHANGED <<html_converter, threads, _credentials, _service, token_file,
                 credentials_file>>

AuthNext ==
  \/ GetCredentials
  \/ SaveCredentials
  \/ GetGmailService
  \/ TestConnection
  \/ TimePasses

AuthSpec == AuthInit /\ [][AuthNext]_vars

(***************************************************************************)
(* One EmailFetcher and the service it was given.                          *)
(***************************************************************************)
\* 2025-11-06, 2024-03-01 (the day before is a leap day) and 2026-01-01
Todays == {739561, 738946, 739617}

\* days_back: none, the usual ones, a day ahead, and two that leave the
\* dates datetime has
DaysBackChoices == {0, 1, 7, 30, -1, 800000, 1000000000}

QueryChoices ==
  {EmptyDict} \cup {[query |-> q] : q \in {"", "is:unread", "label:inbox unread"}}

LabelChoices ==
  {EmptyDict} \cup {[label_ids |-> l] : l \in {<<>>, <<"INBOX">>, <<"INBOX", "UNREAD">>}}

\* the keyword arguments of fetch_messages, the defaults filled in
FetchKwargs ==
  {[days_back |-> d, max_results |-> m] @@ q @@ l :
     d \in DaysBackChoices, m \in {1, 10, 50}, q \in QueryChoices,
     l \in LabelChoices}

sample_email_list ==
  <<[id |-> "msg_001", threadId |-> "thread_001"],
    [id |-> "msg_002", threadId |-> "thread_002"],
    [id |-> "msg_003", threadId |-> "thread_003"]>>

\* what the list request does: a response with messages, without the key,
\* with no message, or an exception
ListResults ==
  {Ok([messages |-> sample_email_list]), Ok(EmptyDict),
   Ok([messages |-> <<>>, resultSizeEstimate |-> 0]),
   Raise("HttpError"), Raise("Exception")}

\* what the get request does
GetResults ==
  {Ok([id |-> "msg_001", threadId |-> "thread_001", snippet |-> "This week in AI"]),
   Raise("HttpError"), Raise("Exception")}

FetchMessages ==
  /\ op = "init"
  /\ \E kwargs \in FetchKwargs, today \in Todays, service \in ListResults :
       LET done == fetch_messages(kwargs, today, service)
       IN /\ op' = "fetch_messages"
          /\ arg' = kwargs
          /\ env' = [today |-> today, service |-> service]
          /\ ret' = done.ret
          /\ calls' = done.calls
  /\ UNCHANGED <<html_converter, threads, _credentials, _service, token_file,
                 credentials_file, now>>

FetchMessageById ==
  /\ op = "init"
  /\ \E message_id \in {"msg_001", ""}, service \in GetResults :
       LET done == fetch_message_by_id(message_id, service)
       IN /\ op' = "fetch_message_by_id"
          /\ arg' = [message_id |-> message_id]
          /\ env' = [today |-> 0, service |-> service]
          /\ ret' = done.ret
          /\ calls' = done.calls
  /\ UNCHANGED <<html_converter, threads, _credentials, _service, token_file,
                 credentials_file, now>>

BuildDateQuery ==
  /\ op = "init"
  /\ \E days_back \in DaysBackChoices, today \in Todays :
       /\ op' = "build_date_query"
       /\ arg' = [days_back |-> days_back]
       /\ env' = [today |-> today, service |-> Ok(EmptyDict)]
       /\ ret' = build_date_query(days_back, today)
       /\ calls' = <<>>
  /\ UNCHANGED <<html_converter, threads, _credentials, _service, token_file,
                 credentials_file, now>>

FetchUnreadMessages ==
  /\ op = "init"
  /\ \E days_back \in DaysBackChoices, today \in Todays, service \in ListResults :
       LET kwargs == [days_back |-> days_back, max_results |-> 50]
           done == fetch_unread_messages(kwargs, today, service)
       IN /\ op' = "fetch_unread_messages"
          /\ arg' = kwargs
          /\ env' = [today |-> today, service |-> service]
          /\ ret' = done.ret
          /\ calls' = done.calls
  /\ UNCHANGED <<html_converter, threads, _credentials, _service, token_file,
                 credentials_file, now>>

FetchFromSender ==
  /\ op = "init"
  /\ \E days_back \in DaysBackChoices, today \in Todays, service \in ListResults :
       LET kwargs == [days_back |-> days_back, max_results |-> 50]
           done == fetch_from_sender("newsletter@example.com", kwargs, today,
                                     service)
       IN /\ op' = "fetch_from_sender"
          /\ arg' = kwargs @@ [sender_email |-> "newsletter@example.com"]
          /\ env' = [today |-> today, service |-> service]
          /\ ret' = done.ret
          /\ calls' = done.calls
  /\ UNCHANGED <<html_converter, threads, _credentials, _service, token_file,
                 credentials_file, now>>

FetchBySubject ==
  /\ op = "init"
  /\ \E days_back \in DaysBackChoices, today \in Todays, service \in ListResults :
       LET kwargs == [days_back |-> days_back, max_results |-> 50]
           done == fetch_by_subject("AI Weekly", kwargs, today, service)
       IN /\ op' = "fetch_by_subject"
          /\ arg' = kwargs @@ [subject |-> "AI Weekly"]
          /\ env' = [today |-> today, service |-> service]
          /\ ret' = done.ret
          /\ calls' = done.calls
  /\ UNCHANGED <<html_converter, threads, _credentials, _service, token_file,
                 credentials_file, now>>

\* the caller takes the result; the fetcher keeps nothing of the call
FetcherReturn ==
  /\ op # "init"
  /\ op' = "init"
  /\ arg' = <<>>
  /\ env' = NoEnv
  /\ ret' = Ok(<<>>)
  /\ calls' = <<>>
  /\ UNCHANGED <<html_converter, threads, _credentials, _service, token_file,
                 credentials_file, now>>

FetcherNext ==
  \/ FetchMessages
  \/ FetchMessageById
  \/ BuildDateQuery
  \/ FetchUnreadMessages
  \/ FetchFromSender
  \/ FetchBySubject
  \/ FetcherReturn

FetcherSpec == Init /\ [][FetcherNext]_vars

(***************************************************************************)
(* What the specification says of a part tree, written apart from the     *)
(* code's traversal: a text/plain leaf gives its decoded text, a text/html *)
(* leaf the conversion of its decoded text, every other leaf nothing, and  *)
(* a container its children's texts in order, the empty ones left out and  *)
(* the others two newlines apart.                                          *)
(***************************************************************************)
IsContainer(node) == "parts" \in DOMAIN node

HasData(node) == "body" \in DOMAIN node /\ "data" \in DOMAIN node.body

Separator == <<10, 10>>

RECURSIVE JoinedInOrder(_, _)
JoinedInOrder(texts, acc) ==
  IF texts = <<>> THEN acc
  ELSE JoinedInOrder(Tail(texts),
                     IF Head(texts) = <<>> THEN acc
                     ELSE IF acc = <<>> THEN Head(texts)
                     ELSE acc \o Separator \o Head(texts))

RECURSIVE Flattened(_, _)
Flattened(node, raises) ==
  IF IsContainer(node) THEN
    JoinedInOrder([i \in 1..Len(node.parts) |-> Flattened(node.parts[i], raises)],
                  <<>>)
  ELSE IF HasData(node) /\ node.mimeType = "text/plain" THEN
    decode_body(node.body.data).val
  ELSE IF HasData(node) /\ node.mimeType = "text/html" THEN
    clean_html(decode_body(node.body.data).val, raises).val
  ELSE <<>>

StartsWith(text, prefix) ==
  Len(text) >= Len(prefix) /\ SubSeq(text, 1, Len(prefix)) = prefix

EndsWith(text, suffix) ==
  Len(text) >= Len(suffix)
    /\ SubSeq(text, Len(text) - Len(suffix) + 1, Len(text)) = suffix

\* the leaves of a tree that carry data under a mime type that is no text
RECURSIVE HasOtherLeaf(_)
HasOtherLeaf(node) ==
  IF IsContainer(node) THEN \E i \in 1..Len(node.parts) : HasOtherLeaf(node.parts[i])
  ELSE HasData(node) /\ node.mimeType \notin {"text/plain", "text/html"}

\* the text/html leaves of a tree whose body is empty or decodes to nothing
RECURSIVE HasEmptyHtmlLeaf(_)
HasEmptyHtmlLeaf(node) ==
  IF IsContainer(node)
  THEN \E i \in 1..Len(node.parts) : HasEmptyHtmlLeaf(node.parts[i])
  ELSE /\ HasData(node)
       /\ node.mimeType = "text/html"
       /\ decode_body(node.body.data).val = <<>>

\* a tree that is one text/plain leaf with data, at the root or as the only
\* child of the root
IsSolePlainLeaf(node) ==
  LET leaf == IF IsContainer(node) /\ Len(node.parts) = 1 THEN node.parts[1]
              ELSE node
  IN ~IsContainer(leaf) /\ HasData(leaf) /\ leaf.mimeType = "text/plain"

SoleLeafData(node) ==
  IF IsContainer(node) THEN node.parts[1].body.data ELSE node.body.data

(***************************************************************************)
(* C1.  parse_message, extract_body, extract_headers and                   *)
(* calculate_metadata never propagate an exception, whatever the input     *)
(* (any nesting depth included), and parse_message returns a record with   *)
(* id, thread id, subject, sender, recipient, date, body and snippet.      *)
(* Stated as claimed; the code's unguarded recursion breaks it.            *)
(***************************************************************************)
C1_NeverRaises ==
  op \in {"parse_message", "extract_body", "extract_headers", "calculate_metadata"}
    => /\ Returned(ret)
       /\ op = "parse_message" =>
            DOMAIN ret.val = {"id", "thread_id", "subject", "sender", "to",
                              "date", "body", "snippet"}

(***************************************************************************)
(* C2, as claimed.  For a container, extract returns its children's texts  *)
(* in tree order, the empty ones removed and the others joined by two      *)
(* newlines, and the result never starts or ends with a separator.         *)
(***************************************************************************)
C2_NeverStartsOrEndsWithSeparator ==
  (op = "extract_body" /\ Returned(ret) /\ IsContainer(arg))
    => /\ ret.val = Flattened(arg, env.raises)
       /\ ~StartsWith(ret.val, Separator)
       /\ ~EndsWith(ret.val, Separator)

(***************************************************************************)
(* C2, amended.  For a container, whenever extract returns, it returns its *)
(* children's texts in tree order (a nested container's text at that       *)
(* container's place), the empty ones removed and the others joined by     *)
(* exactly two newlines: [leaf A, leaf "", leaf B] give "A\n\nB", and the  *)
(* join puts no separator before the first or after the last text, so the  *)
(* result begins with the first non-empty text and ends with the last.     *)
(***************************************************************************)
C2_JoinedInTreeOrder ==
  (op = "extract_body" /\ Returned(ret) /\ IsContainer(arg))
    => LET texts == SelectSeq([i \in 1..Len(arg.parts) |->
                                 Flattened(arg.parts[i], env.raises)], IsTruthy)
       IN /\ ret.val = Flattened(arg, env.raises)
          /\ arg = Container(<<Leaf("text/plain", EncA), Leaf("text/plain", <<>>),
                               Leaf("text/plain", EncB)>>)
               => ret.val = <<65, 10, 10, 66>>
          /\ texts = <<>> => ret.val = <<>>
          /\ texts # <<>> => /\ StartsWith(ret.val, texts[1])
                             /\ EndsWith(ret.val, texts[Len(texts)])
                             /\ Len(ret.val) = Len(str_join(<<>>, texts))
                                                 + 2 * (Len(texts) - 1)

\* a container with an empty child between two texts and a nested container
C2_Witness ==
  /\ op = "extract_body"
  /\ arg = Container(<<Leaf("text/plain", EncA), Leaf("text/plain", <<>>),
                       Container(<<Leaf("text/plain", EncB)>>)>>)
  /\ ret = Ok(<<65, 10, 10, 66>>)

(***************************************************************************)
(* C3, as claimed.  A leaf whose body is malformed base64, or whose        *)
(* decoded bytes are not valid UTF-8, contributes exactly the empty        *)
(* string.                                                                 *)
(***************************************************************************)
\* RFC 4648 section 5: whole quads of alphabet characters, '=' only as the
\* last one or two characters
WellFormedBase64(e) ==
  /\ Len(e) % 4 = 0
  /\ \A i \in 1..Len(e) :
       \/ table_a2b_base64(IF e[i] = 45 THEN 43 ELSE IF e[i] = 95 THEN 47 ELSE e[i]) < 64
       \/ /\ e[i] = 61
          /\ i >= Len(e) - 1
          /\ i = Len(e) - 1 => e[Len(e)] = 61

RECURSIVE ValidUtf8(_)
ValidUtf8(b) ==
  \/ b = <<>>
  \/ Head(b) < 128 /\ ValidUtf8(Tail(b))
  \/ /\ Head(b) \in 194..223
     /\ Len(b) >= 2
     /\ b[2] \in 128..191
     /\ ValidUtf8(SubSeq(b, 3, Len(b)))

DecodeFault(e) ==
  \/ ~WellFormedBase64(e)
  \/ ~Returned(urlsafe_b64decode(e))
  \/ ~ValidUtf8(urlsafe_b64decode(e).val)

RejectedBodies == {EncNotBase64, EncNoPadding, EncNonAscii}

\* the text each generated body stands for, written out
TextOf(e) ==
  IF e \in RejectedBodies \cup {<<>>} THEN <<>>
  ELSE IF e \in {EncA, EncJunkA, EncAInvalidUtf8} THEN <<65>>
  ELSE IF e = EncB THEN <<66>>
  ELSE IF e = EncNlNlA THEN <<10, 10, 65>>
  ELSE IF e = EncEAcute THEN <<233>>
  ELSE <<60, 98, 62, 65, 60, 47, 98, 62>>

C4_OtherMimeTypeDropped ==
  (op = "extract_body" /\ Returned(ret) /\ HasOtherLeaf(arg))
    => ret.val = Flattened(arg, env.raises)

(***************************************************************************)
(* C5.  Every text/html leaf with a non-empty body contributes the         *)
(* conversion of its decoded text, not the decoded HTML, at every place in *)
(* the tree, the root payload included; a text/plain leaf contributes its  *)
(* decoded text.  Stated as claimed; the code returns the root payload's   *)
(* decoded body unconverted.                                               *)
(***************************************************************************)
C5_HtmlConvertedEverywhere ==
  (op = "extract_body" /\ Returned(ret) /\ ~HasOtherLeaf(arg)
     /\ ~HasEmptyHtmlLeaf(arg))
    => ret.val = Flattened(arg, env.raises)

(***************************************************************************)
(* C6.  When the conversion of a text/html leaf fails, the leaf            *)
(* contributes the unconverted string it was given (not the empty string   *)
(* in its place), and the failure does not raise out of extract.           *)
(***************************************************************************)
C6_ConversionFailureFallsBack ==
  /\ (op = "clean_html" /\ arg \in env.raises) => ret = Ok(arg)
  /\ op = "extract_body" =>
       /\ ret.exc # "Exception"
       /\ \A e \in EncodedBodies :
            (arg = Container(<<Leaf("text/html", e)>>) /\ TextOf(e) \in env.raises)
              => ret = Ok(TextOf(e))

C6_Witness ==
  /\ op = "extract_body"
  /\ arg = Container(<<Leaf("text/html", EncHtmlBoldA)>>)
  /\ TextOf(EncHtmlBoldA) \in env.raises
  /\ ret = Ok(<<60, 98, 62, 65, 60, 47, 98, 62>>)

(***************************************************************************)
(* C7.  extract_headers returns a map whose keys are exactly the           *)
(* lower-cased names of the sequence, each with the value of the last pair *)
(* whose name equals the key but for case, untouched; the empty sequence   *)
(* gives the empty map.                                                    *)
(***************************************************************************)
SameButForCase(a, b) ==
  /\ Len(a) = Len(b)
  /\ \A i \in 1..Len(a) :
       \/ a[i] = b[i]
       \/ a[i] \in 65..90 /\ b[i] = a[i] + 32
       \/ b[i] \in 65..90 /\ a[i] = b[i] + 32

IsLowerCased(k) == \A i \in 1..Len(k) : k[i] \notin 65..90

\* the places of the pairs named key, but for case
Places(headers, key) ==
  {i \in 1..Len(headers) : SameButForCase(headers[i].name, key)}

Last(S) == CHOOSE i \in S : \A j \in S : j <= i

C7_LastHeaderWins ==
  op = "extract_headers" =>
    /\ Returned(ret)
    /\ \A k \in DOMAIN ret.val :
         /\ IsLowerCased(k)
         /\ Places(arg, k) # {}
         /\ ret.val[k] = arg[Last(Places(arg, k))].value
    /\ \A i \in 1..Len(arg) :
         \E k \in DOMAIN ret.val : SameButForCase(arg[i].name, k)
    /\ arg = <<>> => ret.val = EmptyDict

\* "Subject" then "SUBJECT": one key, the later value with its trailing blank
C7_Witness ==
  /\ op = "extract_headers"
  /\ arg = <<Header(<<83, 117, 98, 106, 101, 99, 116>>, "AI Weekly"),
             Header(<<83, 85, 66, 74, 69, 67, 84>>, "Re: AI Weekly ")>>
  /\ DOMAIN ret.val = {KeySubject}
  /\ ret.val[KeySubject] = "Re: AI Weekly "

(***************************************************************************)
(* C8.  In the record parse_message returns, subject, sender and recipient *)
(* are the values of the last headers named subject, from and to but for   *)
(* case, and "No Subject", "Unknown" and "" when there is none; id, thread *)
(* id and snippet are the message's.                                       *)
(***************************************************************************)
LastValue(headers, key, default) ==
  IF Places(headers, key) = {} THEN default
  ELSE headers[Last(Places(headers, key))].value

C8_HeaderFieldsAndDefaults ==
  (op = "parse_message" /\ Returned(ret) /\ arg # EmptyDict) =>
    /\ ret.val.subject = LastValue(arg.payload.headers, KeySubject, "No Subject")
    /\ ret.val.sender = LastValue(arg.payload.headers, KeyFrom, "Unknown")
    /\ ret.val.to = LastValue(arg.payload.headers, KeyTo, "")
    /\ ret.val.id = arg.id
    /\ ret.val.thread_id = arg.threadId
    /\ ret.val.snippet = arg.snippet

\* two subjects that differ in case, a recipient, no sender
C8_Witness ==
  /\ op = "parse_message"
  /\ Returned(ret)
  /\ arg # EmptyDict
  /\ Cardinality(Places(arg.payload.headers, KeySubject)) = 2
  /\ arg.payload.headers[1].value = "Re: AI Weekly "
  /\ ret.val.subject = "AI Weekly"
  /\ ret.val.sender = "Unknown"
  /\ ret.val.to = "me@example.com"
  /\ ret.val.id = "test_message_123"

(***************************************************************************)
(* C9.  The date of the record parse_message returns is the ISO-8601       *)
(* rendering of the parsed date header when the header is there and can be *)
(* parsed, and the empty string when it is absent, empty or cannot be      *)
(* parsed; a parse failure raises neither out of parse_date nor out of     *)
(* parse_message.                                                          *)
(***************************************************************************)
\* the generated dates in ISO 8601, written out
IsoOf(date_str) ==
  IF date_str = "Mon, 6 Nov 2025 10:00:00 -0800" THEN "2025-11-06T10:00:00-08:00"
  ELSE IF date_str = "Thu, 01 Jan 2026 00:00:00 +0530" THEN "2026-01-01T00:00:00+05:30"
  ELSE ""

C9_DateIsoOrEmpty ==
  /\ op = "parse_date" =>
       /\ Returned(ret)
       /\ IsoOf(arg) = "" <=> ret.val = None
       /\ ret.val # None => isoformat(ret.val) = IsoOf(arg)
  /\ op = "parse_message" =>
       /\ ret.exc # "ValueError"
       /\ (Returned(ret) /\ arg # EmptyDict) =>
            ret.val.date = IsoOf(LastValue(arg.payload.headers, KeyDate, ""))
       /\ (Returned(ret) /\ arg = EmptyDict) => ret.val.date = ""

\* a date header that cannot be parsed, after one that can
C9_Witness ==
  /\ op = "parse_message"
  /\ Returned(ret)
  /\ arg # EmptyDict
  /\ Len(arg.payload.headers) = 2
  /\ arg.payload.headers[1].value = "Mon, 6 Nov 2025 10:00:00 -0800"
  /\ arg.payload.headers[2].value = "not a date"
  /\ ret.val.date = ""

(***************************************************************************)
(* C10.  calculate_metadata returns estimated read minutes equal to        *)
(* max(1, wordCount div 200), wordCount being the number of                *)
(* whitespace-delimited tokens of the body: at least 1 always, and 1 with  *)
(* wordCount 0 for the empty body.                                         *)
(***************************************************************************)
\* a token ends at every character that is not whitespace and is followed
\* by whitespace or by the end of the body
Tokens(body) ==
  {i \in 1..Len(body) :
     /\ body[i] \notin Whitespace
     /\ (i = Len(body) \/ body[i + 1] \in Whitespace)}

C10_ReadMinutes ==
  op = "calculate_metadata" =>
    LET n == Cardinality(Tokens(arg.body))
        minutes == ret.val.estimated_read_time_minutes
    IN /\ Returned(ret)
       /\ ret.val.word_count = n
       /\ minutes >= 1
       /\ n < 200 => minutes = 1
       /\ n >= 200 => minutes * 200 <= n /\ n < (minutes + 1) * 200
       /\ arg.body = <<>> => ret.val.word_count = 0 /\ minutes = 1

\* a body long enough for the estimate to exceed its floor
C10_Witness ==
  /\ op = "calculate_metadata"
  /\ ret.val.word_count >= 400
  /\ ret.val.estimated_read_time_minutes = 2

(***************************************************************************)
(* C11.  For every sender string, extract_sender_name returns the text     *)
(* before the first '<', with the whitespace that ends it dropped and the  *)
(* double quotes around it trimmed, and returns the whole string unchanged *)
(* exactly when the string holds no '<'.  Stated as claimed; the code's    *)
(* pattern wants one character at least before the '<' and none of them a  *)
(* newline, and so breaks it.                                              *)
(***************************************************************************)
Chars(s) == {s[i] : i \in 1..Len(s)}

\* the place of the first c in s
First(s, c) == CHOOSE i \in 1..Len(s) : s[i] = c /\ \A j \in 1..(i - 1) : s[j] # c

RECURSIVE TrailingWhitespaceDropped(_)
TrailingWhitespaceDropped(s) ==
  IF s # <<>> /\ s[Len(s)] \in Whitespace
  THEN TrailingWhitespaceDropped(SubSeq(s, 1, Len(s) - 1))
  ELSE s

NameBeforeBracket(sender) ==
  str_strip(TrailingWhitespaceDropped(SubSeq(sender, 1, First(sender, 60) - 1)),
            {34})

C11_NameIsTextBeforeFirstBracket ==
  op = "extract_sender_name"
    => /\ Returned(ret)
       /\ 60 \notin Chars(arg) => ret.val = arg
       /\ 60 \in Chars(arg) => ret.val = NameBeforeBracket(arg) /\ ret.val # arg

(***************************************************************************)
(* C12.  For every sender string, extract_sender_email returns the text    *)
(* strictly between the first '<' and the '>' that follows it when the     *)
(* string holds such a pair; otherwise the whole string when it holds '@'; *)
(* otherwise the empty string.  Stated as claimed; the code's pattern      *)
(* wants one character at least between the two, none of them a newline,   *)
(* and so breaks it.                                                       *)
(***************************************************************************)
HasBracketPair(sender) ==
  /\ 60 \in Chars(sender)
  /\ \E e \in (First(sender, 60) + 1)..Len(sender) : sender[e] = 62

BetweenFirstBrackets(sender) ==
  LET i == First(sender, 60)
      e == CHOOSE f \in (i + 1)..Len(sender) :
             sender[f] = 62 /\ \A g \in (i + 1)..(f - 1) : sender[g] # 62
  IN SubSeq(sender, i + 1, e - 1)

C12_EmailIsTextBetweenBrackets ==
  op = "extract_sender_email"
    => /\ Returned(ret)
       /\ ret.val = IF HasBracketPair(arg) THEN BetweenFirstBrackets(arg)
                    ELSE IF 64 \in Chars(arg) THEN arg
                    ELSE <<>>

(***************************************************************************)
(* C13.  parse_message is stateless and reentrant: concurrent calls on     *)
(* disjoint messages, in any interleaving and on the same parser, each     *)
(* return the record that the call returns when it runs alone, and no call *)
(* leaves state behind that changes a later call's result.  Stated as      *)
(* claimed; the converter that the callers share breaks it.                *)
(***************************************************************************)
C13_EachCallAsIfAlone ==
  /\ \A t \in Threads :
       threads[t].pc = "done"
         => threads[t].ret = parse_message(threads[t].message, MaxFrames, {})
  /\ (\A t \in Threads : threads[t].pc = "idle")
       => html_converter.outtextlist = <<>>

(***************************************************************************)
(* C14.  get_credentials raises FileNotFoundError when there is no valid   *)
(* cached or stored token, no expired token with a refresh token, and no   *)
(* credentials file; the interactive flow is then not started and the      *)
(* token file is not written.                                              *)
(***************************************************************************)
Range(s) == {s[i] : i \in 1..Len(s)}

Refreshable(credentials, t) ==
  expired(credentials, t) /\ credentials.refresh_token

\* no cached and no stored credentials that are valid or can be refreshed
NoUsableToken ==
  /\ _credentials # None
       => ~valid(_credentials, now) /\ ~Refreshable(_credentials, now)
  /\ token_file.exists
       => /\ ~valid(from_authorized_user_file(token_file), now)
          /\ ~Refreshable(from_authorized_user_file(token_file), now)

C14_RaisesFileNotFound ==
  [][(op' = "get_credentials" /\ NoUsableToken /\ ~credentials_file)
       => /\ ret' = Raise("FileNotFoundError")
          /\ Range(calls') \cap {"from_client_secrets_file", "run_local_server",
                                 "save_credentials"} = {}
          /\ token_file' = token_file]_vars

\* a stored token that is of no use, and no credentials file
C14_Witness ==
  /\ op = "get_credentials"
  /\ ret = Raise("FileNotFoundError")
  /\ token_file.exists
  /\ calls = <<"from_authorized_user_file">>
  /\ ~credentials_file

(***************************************************************************)
(* C15.  When get_credentials finds stored credentials that are expired    *)
(* and carry a refresh token, it refreshes them exactly once, saves them   *)
(* to the token file after the refresh, returns them, and starts no        *)
(* interactive flow; when the stored credentials are valid it returns them *)
(* with no refresh and no flow.  It finds the stored credentials when the  *)
(* token file exists and no valid credentials are cached.                  *)
(***************************************************************************)
FindsStored ==
  /\ token_file.exists
  /\ _credentials # None => ~valid(_credentials, now)

C15_RefreshOnceThenSave ==
  [][(op' = "get_credentials" /\ FindsStored)
       => LET stored == from_authorized_user_file(token_file)
          IN /\ Refreshable(stored, now)
                  => /\ calls' = <<"from_authorized_user_file", "refresh",
                                   "save_credentials">>
                     /\ ret' = Ok(refresh(stored, now))
                     /\ _credentials' = refresh(stored, now)
                     /\ token_file' = File(to_json(refresh(stored, now)))
             /\ valid(stored, now)
                  => /\ calls' = <<"from_authorized_user_file">>
                     /\ ret' = Ok(stored)
                     /\ token_file' = token_file]_vars

C15_Witness ==
  /\ op = "get_credentials"
  /\ calls = <<"from_authorized_user_file", "refresh", "save_credentials">>
  /\ Returned(ret)
  /\ valid(ret.val, now)
  /\ token_file = File(to_json(ret.val))

(***************************************************************************)
(* C16.  When no token file exists and the credentials file exists,        *)
(* get_credentials runs the interactive flow exactly once, saves the       *)
(* credentials it gives to the token file and returns them; the            *)
(* get_credentials call that follows on the same object returns the same   *)
(* valid credentials and runs no flow.                                     *)
(***************************************************************************)
C16_FlowOnceThenCached ==
  [][/\ (op' = "get_credentials" /\ ~token_file.exists /\ credentials_file)
          => /\ calls' = <<"from_client_secrets_file", "run_local_server",
                           "save_credentials">>
             /\ Returned(ret')
             /\ ret'.val = run_local_server(now, env'.offline)
             /\ _credentials' = ret'.val
             /\ token_file' = File(to_json(ret'.val))
     /\ (/\ op = "get_credentials"
         /\ "run_local_server" \in Range(calls)
         /\ op' = "get_credentials")
          => /\ ret' = ret
             /\ valid(ret'.val, now')
             /\ calls' = <<>>
             /\ token_file' = token_file]_vars

C16_Witness ==
  /\ op = "get_credentials"
  /\ calls = <<"from_client_secrets_file", "run_local_server",
               "save_credentials">>
  /\ Returned(ret)
  /\ _credentials = ret.val
  /\ token_file = File(to_json(ret.val))

(***************************************************************************)
(* C17.  Over any sequence of get_gmail_service calls on one GmailAuth     *)
(* object the Gmail service is built at most once: the first call that     *)
(* succeeds builds it from get_credentials, and every later call returns   *)
(* that same service without calling get_credentials or build again.       *)
(***************************************************************************)
C17_ServiceBuiltOnce ==
  [][/\ _service # None
          => /\ _service' = _service
             /\ "build" \notin Range(calls')
             /\ op' = "get_gmail_service"
                  => ret' = Ok(_service) /\ calls' = <<>>
     /\ (_service = None /\ op' = "get_gmail_service" /\ Returned(ret'))
          => /\ Head(calls') = "get_credentials"
             /\ calls'[Len(calls')] = "build"
             /\ _service' = build(_credentials')
             /\ ret' = Ok(_service')
     /\ (_service = None /\ _service' # None)
          => op' \in {"get_gmail_service", "test_connection"}]_vars

\* a later call, answered from the object
C17_Witness ==
  /\ op = "get_gmail_service"
  /\ _service # None
  /\ ret = Ok(_service)
  /\ calls = <<>>

RECURSIVE CutBelow(_, _)
CutBelow(node, m) ==
  IF ~IsContainer(node) THEN node
  ELSE IF m = 0 THEN [node EXCEPT !.parts = <<>>]
  ELSE [node EXCEPT !.parts = [i \in 1..Len(node.parts) |->
                                 CutBelow(node.parts[i], m - 1)]]

C19_TerminatesFailingClosed ==
  (op = "extract_body" /\ arg \in DeepTrees)
    => /\ Returned(ret)
       /\ \E m \in 0..MaxDepth :
            ret.val = Flattened(CutBelow(arg, m), env.raises)

(***************************************************************************)
(* C18.  fetch_messages never raises: it returns the service's message     *)
(* list when the list request succeeds with a messages entry, and the      *)
(* empty list when the response has no messages entry or when the request  *)
(* fails with any exception.  Stated as claimed; the date arithmetic done  *)
(* before the try block breaks it.                                         *)
(***************************************************************************)
C18_FetchNeverRaises ==
  op = "fetch_messages"
    => /\ Returned(ret)
       /\ ret.val = IF Returned(env.service)
                       /\ "messages" \in DOMAIN env.service.val
                    THEN env.service.val.messages
                    ELSE <<>>

(***************************************************************************)
(* C20.  The query that fetch_messages sends holds the caller's custom     *)
(* query unchanged when one is given, followed by the date filter          *)
(* "after:YYYY/MM/DD" exactly when days_back is not zero; with no custom   *)
(* query it is the date filter alone; maxResults is the max_results        *)
(* argument, and labelIds is sent only when label_ids is not empty.        *)
(***************************************************************************)
\* the texts after:YYYY/MM/DD of the years around the generated days
DateFilters ==
  {"after:" \o Digits4(y) \o "/" \o Digits2(m) \o "/" \o Digits2(d) :
     y \in 2023..2026, m \in 1..12, d \in 1..31}

C20_QuerySent ==
  (op = "fetch_messages" /\ calls # <<>>)
    => LET sent == calls[1].kwargs
       IN /\ Len(calls) = 1
          /\ calls[1].name = "list"
          /\ ("query" \in DOMAIN arg /\ arg.days_back # 0)
               => \E filter \in DateFilters :
                    sent.q = arg.query \o " " \o filter
          /\ ("query" \in DOMAIN arg /\ arg.days_back = 0)
               => sent.q = arg.query
          /\ "query" \notin DOMAIN arg => sent.q \in DateFilters
          /\ sent.maxResults = arg.max_results
          /\ "labelIds" \in DOMAIN sent
               => /\ "label_ids" \in DOMAIN arg
                  /\ arg.label_ids # <<>>
                  /\ sent.labelIds = arg.label_ids

\* test_fetch_messages_with_query, on 2025-11-06 with a label
C20_Witness ==
  /\ op = "fetch_messages"
  /\ arg = [days_back |-> 7, max_results |-> 10,
            query |-> "label:inbox unread", label_ids |-> <<"INBOX">>]
  /\ Len(calls) = 1
  /\ calls[1].kwargs = [userId |-> "me", maxResults |-> 10,
                        q |-> "label:inbox unread after:2025/10/30",
                        labelIds |-> <<"INBOX">>]

====
